---- MODULE Spec2Model ----
(***************************************************************************)
(* Model of the layers-explorer extension: the bounded disk cache          *)
(* (src/src/cache.ts) and the Explorer that uses it (explorer.ts, kept as  *)
(* src/unnamed/part_002).                                                  *)
(***************************************************************************)
EXTENDS Integers, Sequences, FiniteSets, TLC

(***************************************************************************)
(* Bounds of the model.                                                    *)
(***************************************************************************)
\* longest layer list handed to save
MaxLayers == 1
\* last value of the clock that stamps access times
MaxClock == 2
\* longest mocked listing handed to limitSize
MaxListing == 6
\* compressed bytes one layer of a layer list stands for
BytesPerLayer == 600000
\* most layers of an image archive handed to the parser
MaxArchiveLayers == 3
\* longest history of the configuration document of an image archive
MaxHistory == 4

(***************************************************************************)
(* Values.                                                                 *)
(***************************************************************************)
\* the JavaScript value undefined, as read from a property
Undefined == "undefined"

\* 1024 * 1024, the factor of cache.ts lines 78 and 95
MiB == 1024 * 1024

\* the values 1024 * 1024 * preferences.getCacheSize() takes in the model;
\* getCacheSize() returns a number, which need not be whole
Budgets == {0, 300000, MiB}

\* length of the gzip stream of an empty input (header, empty block, trailer)
GzipOverhead == 20

LayerIds == {"A"}
CreatedBys == {"x"}

\* ImageFilesystemLayer: id and optional createdBy
LayerValues == [id : LayerIds, createdBy : CreatedBys \cup {Undefined}]

SeqsUpTo(S, n) == UNION {[1..k -> S] : k \in 0..n}

\* ImageFilesystemLayers: { layers: [...] }
LayerLists == [layers : SeqsUpTo(LayerValues, MaxLayers)]

\* one layer list of every length: the lists of the long call sequences, where
\* a list matters by its compressed length
SampleLists ==
  {[layers |-> [i \in 1..k |-> [id |-> "A", createdBy |-> "x"]]] : k \in 0..MaxLayers}

\* image.Id, a digest, kept as its pieces
ImageIds == {<<"sha256:", "1">>, <<"sha256:", "2">>}

(***************************************************************************)
(* JSON.stringify and JSON.parse on layer lists, as token sequences.       *)
(***************************************************************************)
\* JSON.stringify of one layer: a property whose value is undefined is left out
stringifyLayer(l) ==
  <<"{", "id", l.id>>
    \o (IF l.createdBy = Undefined THEN <<>> ELSE <<"createdBy", l.createdBy>>)
    \o <<"}">>

RECURSIVE stringifyLayerSeq(_)
stringifyLayerSeq(ls) ==
  IF ls = <<>> THEN <<>> ELSE stringifyLayer(Head(ls)) \o stringifyLayerSeq(Tail(ls))

JSONstringify(v) == <<"{", "layers", "[">> \o stringifyLayerSeq(v.layers) \o <<"]", "}">>

\* result of a parse: ok is FALSE when JSON.parse throws
ParseFailure == [ok |-> FALSE, layers |-> <<>>]

RECURSIVE parseLayerSeq(_, _)
parseLayerSeq(toks, acc) ==
  IF toks = <<>> THEN [ok |-> TRUE, layers |-> acc]
  ELSE IF Len(toks) >= 4 /\ toks[1] = "{" /\ toks[2] = "id" /\ toks[4] = "}"
  THEN parseLayerSeq(SubSeq(toks, 5, Len(toks)),
                     Append(acc, [id |-> toks[3], createdBy |-> Undefined]))
  ELSE IF Len(toks) >= 6 /\ toks[1] = "{" /\ toks[2] = "id"
          /\ toks[4] = "createdBy" /\ toks[6] = "}"
  THEN parseLayerSeq(SubSeq(toks, 7, Len(toks)),
                     Append(acc, [id |-> toks[3], createdBy |-> toks[5]]))
  ELSE ParseFailure

JSONparse(toks) ==
  IF Len(toks) >= 5 /\ SubSeq(toks, 1, 3) = <<"{", "layers", "[">>
     /\ SubSeq(toks, Len(toks) - 1, Len(toks)) = <<"]", "}">>
  THEN parseLayerSeq(SubSeq(toks, 4, Len(toks) - 2), <<>>)
  ELSE ParseFailure

(***************************************************************************)
(* gzip and gunzip.  A blob is a record: gz tells a gzip stream from other *)
(* bytes, text is the compressed text, len the length of the blob.         *)
(***************************************************************************)
LayerCount(text) == Cardinality({i \in DOMAIN text : text[i] = "id"})

\* compressed.length
gzipLength(text) == GzipOverhead + BytesPerLayer * LayerCount(text)

gzip(text) == [gz |-> TRUE, text |-> text, len |-> gzipLength(text)]

\* gunzip throws ("incorrect header check") on bytes that are no gzip stream
gunzip(blob) == [ok |-> blob.gz, text |-> blob.text]

NoData == [gz |-> FALSE, text |-> <<>>, len |-> 0]

(***************************************************************************)
(* The cache directory <storage path>/cache/v1.                            *)
(***************************************************************************)
\* the directory of the cache files below the storage path of the extension:
\* a path is the sequence of its segments
StoragePath == "<storage>"
getRootDir == <<StoragePath, "cache", "v1">>

\* getImageCacheFile: the file name below the root directory, image.Id + '.gz'
getImageCacheFile(image) == image \o <<".gz">>

\* the path getImageCacheFile returns: path.join(getRootDir(), image.Id + '.gz')
getImageCachePath(image) == Append(getRootDir, getImageCacheFile(image))

\* the names a file of the cache directory can have
FileNames == {getImageCacheFile(i) : i \in ImageIds}

\* an absent file
NoFile == [present |-> FALSE, atime |-> 0, data |-> NoData]

\* bytes that are no gzip stream, and a gzip stream of text JSON.parse rejects
RawContents == {[gz |-> FALSE, text |-> <<>>, len |-> 30],
                [gz |-> TRUE, text |-> <<"{", "layers">>, len |-> 300000]}

\* what a cache file can hold before the first operation
InitContents == {gzip(JSONstringify(v)) : v \in SampleLists} \cup RawContents

VARIABLES
  fs,       \* the cache directory: file name -> [present, atime, data]
  budget,   \* 1024 * 1024 * preferences.getCacheSize()
  now,      \* the clock new Date() reads
  last,     \* the last completed cache operation, its inputs and its outcome
  prev,     \* the cache operation completed before last (two-call scenarios)
  prev2,    \* the cache operation completed before prev (three-call scenarios)
  mock,     \* limitSize on a mocked listing: its inputs and the deletions
  ex,       \* the getFilesystemLayers call in progress
  race      \* two save calls in progress at once, and what followed them

vars == <<fs, budget, now, last, prev, prev2, mock, ex, race>>

\* stats.size of a present file
fileSize(f, name) == f[name].data.len

RECURSIVE SumSizes(_, _)
SumSizes(f, names) ==
  IF names = {} THEN 0
  ELSE LET n == CHOOSE x \in names : TRUE
       IN (IF f[n].present THEN fileSize(f, n) ELSE 0) + SumSizes(f, names \ {n})

\* total size of the files in the cache root
TotalSize(f) == SumSizes(f, DOMAIN f)

PresentNames(f) == {n \in DOMAIN f : f[n].present}

\* readdir order is unspecified; the stable sort keeps it among equal atimes
Orders(S) == {o \in [1..Cardinality(S) -> S] : \A i, j \in DOMAIN o : i # j => o[i] # o[j]}

\* getSortedFilesByAtime: name and size of every file, last accessed first
getSortedFilesByAtime(f) ==
  {[i \in DOMAIN o |-> [name |-> o[i], size |-> fileSize(f, o[i])]] :
     o \in {p \in Orders(PresentNames(f)) :
              \A i, j \in DOMAIN p : i < j => f[p[i]].atime >= f[p[j]].atime}}

(***************************************************************************)
(* limitSize.                                                              *)
(***************************************************************************)
\* limitScan that walks the listing from its end, least recently accessed
\* file first
RECURSIVE limitScan_oldestFirst(_, _, _, _, _)
limitScan_oldestFirst(files, acc, max, bad, deleted) ==
  IF files = <<>> THEN [deleted |-> deleted, threw |-> FALSE]
  ELSE LET file == files[Len(files)]
           rest == SubSeq(files, 1, Len(files) - 1)
       IN IF acc + file.size > max
          THEN IF file.name \in bad
               THEN [deleted |-> deleted, threw |-> TRUE]
               ELSE limitScan_oldestFirst(rest, acc, max, bad, Append(deleted, file.name))
          ELSE limitScan_oldestFirst(rest, acc + file.size, max, bad, deleted)

\* limitScan that leaves the loop after its first deletion
RECURSIVE limitScan_breakAfterDelete(_, _, _, _, _)
limitScan_breakAfterDelete(files, acc, max, bad, deleted) ==
  IF files = <<>> THEN [deleted |-> deleted, threw |-> FALSE]
  ELSE LET file == Head(files)
       IN IF acc + file.size > max
          THEN IF file.name \in bad
               THEN [deleted |-> deleted, threw |-> TRUE]
               ELSE [deleted |-> Append(deleted, file.name), threw |-> FALSE]
          ELSE limitScan_breakAfterDelete(Tail(files), acc + file.size, max, bad, deleted)

\* limitScan without "acc += file.size"
RECURSIVE limitScan_noAdd(_, _, _, _, _)
limitScan_noAdd(files, acc, max, bad, deleted) ==
  IF files = <<>> THEN [deleted |-> deleted, threw |-> FALSE]
  ELSE LET file == Head(files)
       IN IF acc + file.size > max
          THEN IF file.name \in bad
               THEN [deleted |-> deleted, threw |-> TRUE]
               ELSE limitScan_noAdd(Tail(files), acc, max, bad, Append(deleted, file.name))
          ELSE limitScan_noAdd(Tail(files), acc, max, bad, deleted)

\* limitScan that deletes every file after the first one it deletes
RECURSIVE limitScan_stopAtFirst(_, _, _, _, _)
limitScan_stopAtFirst(files, acc, max, bad, deleted) ==
  IF files = <<>> THEN [deleted |-> deleted, threw |-> FALSE]
  ELSE LET file == Head(files)
       IN IF acc + file.size > max \/ deleted # <<>>
          THEN IF file.name \in bad
               THEN [deleted |-> deleted, threw |-> TRUE]
               ELSE limitScan_stopAtFirst(Tail(files), acc, max, bad,
                                          Append(deleted, file.name))
          ELSE limitScan_stopAtFirst(Tail(files), acc + file.size, max, bad, deleted)

\* limitScan that tests each file on its own size, "file.size > max"
RECURSIVE limitScan_ownSize(_, _, _, _, _)
limitScan_ownSize(files, acc, max, bad, deleted) ==
  IF files = <<>> THEN [deleted |-> deleted, threw |-> FALSE]
  ELSE LET file == Head(files)
       IN IF file.size > max
          THEN IF file.name \in bad
               THEN [deleted |-> deleted, threw |-> TRUE]
               ELSE limitScan_ownSize(Tail(files), acc, max, bad, Append(deleted, file.name))
          ELSE limitScan_ownSize(Tail(files), acc + file.size, max, bad, deleted)

\* limitScan with "acc + file.size >= max"
RECURSIVE limitScan_ge(_, _, _, _, _)
limitScan_ge(files, acc, max, bad, deleted) ==
  IF files = <<>> THEN [deleted |-> deleted, threw |-> FALSE]
  ELSE LET file == Head(files)
       IN IF acc + file.size >= max
          THEN IF file.name \in bad
               THEN [deleted |-> deleted, threw |-> TRUE]
               ELSE limitScan_ge(Tail(files), acc, max, bad, Append(deleted, file.name))
          ELSE limitScan_ge(Tail(files), acc + file.size, max, bad, deleted)

\* the scan of limitSize over a listing; bad holds the names whose rm throws.
\* Returns the names handed to deleteCacheFile with success, in order, and
\* whether a deletion threw (which ends the scan).
RECURSIVE limitScan(_, _, _, _, _)
limitScan(files, acc, max, bad, deleted) ==
  IF files = <<>> THEN [deleted |-> deleted, threw |-> FALSE]
  ELSE LET file == Head(files)
       IN IF acc + file.size > max
          THEN IF file.name \in bad
               THEN [deleted |-> deleted, threw |-> TRUE]
               ELSE limitScan(Tail(files), acc, max, bad, Append(deleted, file.name))
          ELSE limitScan(Tail(files), acc + file.size, max, bad, deleted)

Range(s) == {s[i] : i \in DOMAIN s}

\* deleteCacheFile on every name of a sequence: rm of the file
deleteCacheFiles(f, names) ==
  [n \in DOMAIN f |-> IF n \in Range(names) THEN NoFile ELSE f[n]]

RmCalls(n) == [i \in 1..n |-> "rm"]

\* limitSize(reserved) on the directory f listed as files
limitSize(f, files, reserved, max, bad) ==
  LET r == limitScan(files, reserved, max, bad, <<>>)
  IN [fs |-> deleteCacheFiles(f, r.deleted),
      deleted |-> r.deleted,
      threw |-> r.threw,
      calls |-> <<"readdir">> \o RmCalls(Len(r.deleted) + (IF r.threw THEN 1 ELSE 0))]

(***************************************************************************)
(* get, save, init, clearImageCache.                                       *)
(***************************************************************************)
\* get returned undefined
Absent == [defined |-> FALSE, value |-> [layers |-> <<>>]]

NoLayers == [layers |-> <<>>]

WarnUtimes == "unable to modify atime and mtime"
WarnGet == "error getting/reading cache"
WarnSave == "error saving cache file"
WarnInit == "error clearing cache"
WarnList == "error getting files in layers cache"

\* get that logs the warning whatever the error code is
cacheGet_warnAlways(f, image, t, failUtimes) ==
  LET name == getImageCacheFile(image)
  IN IF ~f[name].present
     THEN [fs |-> f, result |-> Absent, warnings |-> <<WarnGet>>, threw |-> FALSE,
           calls |-> <<"readFile">>]
     ELSE LET compressed == f[name].data
              f2 == IF failUtimes THEN f ELSE [f EXCEPT ![name].atime = t]
              w == IF failUtimes THEN <<WarnUtimes>> ELSE <<>>
              content == gunzip(compressed)
              parsed == IF content.ok THEN JSONparse(content.text) ELSE ParseFailure
          IN IF parsed.ok
             THEN [fs |-> f2,
                   result |-> [defined |-> TRUE, value |-> [layers |-> parsed.layers]],
                   warnings |-> w, threw |-> FALSE, calls |-> <<"readFile", "utimes">>]
             ELSE [fs |-> f2, result |-> Absent, warnings |-> Append(w, WarnGet),
                   threw |-> FALSE, calls |-> <<"readFile", "utimes">>]

\* get without the call of utimes
cacheGet_noRefresh(f, image, t, failUtimes) ==
  LET name == getImageCacheFile(image)
  IN IF ~f[name].present
     THEN \* readFile rejects with ENOENT
          [fs |-> f, result |-> Absent, warnings |-> <<>>, threw |-> FALSE,
           calls |-> <<"readFile">>]
     ELSE LET compressed == f[name].data
              f2 == f
              w == <<>>
              content == gunzip(compressed)
              parsed == IF content.ok THEN JSONparse(content.text) ELSE ParseFailure
          IN IF parsed.ok
             THEN [fs |-> f2,
                   result |-> [defined |-> TRUE, value |-> [layers |-> parsed.layers]],
                   warnings |-> w, threw |-> FALSE, calls |-> <<"readFile">>]
             ELSE [fs |-> f2, result |-> Absent, warnings |-> Append(w, WarnGet),
                   threw |-> FALSE, calls |-> <<"readFile">>]

\* get in which a rejected utimes reaches the outer catch block
cacheGet_utimesFatal(f, image, t, failUtimes) ==
  LET name == getImageCacheFile(image)
  IN IF ~f[name].present
     THEN [fs |-> f, result |-> Absent, warnings |-> <<>>, threw |-> FALSE,
           calls |-> <<"readFile">>]
     ELSE IF failUtimes
     THEN [fs |-> f, result |-> Absent, warnings |-> <<WarnGet>>, threw |-> FALSE,
           calls |-> <<"readFile", "utimes">>]
     ELSE LET compressed == f[name].data
              f2 == [f EXCEPT ![name].atime = t]
              content == gunzip(compressed)
              parsed == IF content.ok THEN JSONparse(content.text) ELSE ParseFailure
          IN IF parsed.ok
             THEN [fs |-> f2,
                   result |-> [defined |-> TRUE, value |-> [layers |-> parsed.layers]],
                   warnings |-> <<>>, threw |-> FALSE, calls |-> <<"readFile", "utimes">>]
             ELSE [fs |-> f2, result |-> Absent, warnings |-> <<WarnGet>>,
                   threw |-> FALSE, calls |-> <<"readFile", "utimes">>]

\* get that removes the file it could not decode
cacheGet_deleteCorrupted(f, image, t, failUtimes) ==
  LET name == getImageCacheFile(image)
  IN IF ~f[name].present
     THEN [fs |-> f, result |-> Absent, warnings |-> <<>>, threw |-> FALSE,
           calls |-> <<"readFile">>]
     ELSE LET compressed == f[name].data
              f2 == IF failUtimes THEN f ELSE [f EXCEPT ![name].atime = t]
              w == IF failUtimes THEN <<WarnUtimes>> ELSE <<>>
              content == gunzip(compressed)
              parsed == IF content.ok THEN JSONparse(content.text) ELSE ParseFailure
          IN IF parsed.ok
             THEN [fs |-> f2,
                   result |-> [defined |-> TRUE, value |-> [layers |-> parsed.layers]],
                   warnings |-> w, threw |-> FALSE, calls |-> <<"readFile", "utimes">>]
             ELSE [fs |-> [f EXCEPT ![name] = NoFile], result |-> Absent,
                   warnings |-> Append(w, WarnGet),
                   threw |-> FALSE, calls |-> <<"readFile", "utimes", "rm">>]

\* get(image) at time t; failUtimes: utimes rejects
cacheGet(f, image, t, failUtimes) ==
  LET name == getImageCacheFile(image)
  IN IF ~f[name].present
     THEN \* readFile rejects with ENOENT
          [fs |-> f, result |-> Absent, warnings |-> <<>>, threw |-> FALSE,
           calls |-> <<"readFile">>]
     ELSE LET compressed == f[name].data
              f2 == IF failUtimes THEN f ELSE [f EXCEPT ![name].atime = t]
              w == IF failUtimes THEN <<WarnUtimes>> ELSE <<>>
              content == gunzip(compressed)
              parsed == IF content.ok THEN JSONparse(content.text) ELSE ParseFailure
          IN IF parsed.ok
             THEN [fs |-> f2,
                   result |-> [defined |-> TRUE, value |-> [layers |-> parsed.layers]],
                   warnings |-> w, threw |-> FALSE, calls |-> <<"readFile", "utimes">>]
             ELSE [fs |-> f2, result |-> Absent, warnings |-> Append(w, WarnGet),
                   threw |-> FALSE, calls |-> <<"readFile", "utimes">>]

\* writeFile(filepath, compressed) at time t: a new file is stamped t, an
\* overwritten one keeps its access time
writeFile(f, name, compressed, t) ==
  [f EXCEPT ![name] = [present |-> TRUE,
                       atime |-> IF f[name].present THEN f[name].atime ELSE t,
                       data |-> compressed]]

\* save that writes first and limits the size afterwards
cacheSave_limitAfter(f, files, image, layers, max, t, bad, fault) ==
  LET compressed == gzip(JSONstringify(layers))
      name == getImageCacheFile(image)
      f2 == writeFile(f, name, compressed, t)
      ls == limitSize(f2, CHOOSE l \in getSortedFilesByAtime(f2) : TRUE, 0, max, bad)
  IN [fs |-> ls.fs, warnings |-> <<>>,
      calls |-> <<"mkdir", "writeFile">> \o ls.calls, deleted |-> ls.deleted,
      threw |-> FALSE, mkdir |-> getRootDir, file |-> getImageCachePath(image)]

\* save without the test of the compressed length against the budget
cacheSave_noGuard(f, files, image, layers, max, t, bad, fault) ==
  LET compressed == gzip(JSONstringify(layers))
      ls == limitSize(f, files, compressed.len, max, bad)
      name == getImageCacheFile(image)
  IN IF ls.threw
     THEN [fs |-> ls.fs, warnings |-> <<WarnSave>>, calls |-> ls.calls, deleted |-> ls.deleted,
           threw |-> FALSE, mkdir |-> <<>>, file |-> <<>>]
     ELSE [fs |-> writeFile(ls.fs, name, compressed, t), warnings |-> <<>>,
           calls |-> ls.calls \o <<"mkdir", "writeFile">>, deleted |-> ls.deleted,
           threw |-> FALSE, mkdir |-> getRootDir, file |-> getImageCachePath(image)]

\* save whose catch block throws what limitSize threw again after logging it
cacheSave_throwEviction(f, files, image, layers, max, t, bad, fault) ==
  LET compressed == gzip(JSONstringify(layers))
      ls == limitSize(f, files, compressed.len, max, bad)
      name == getImageCacheFile(image)
  IN IF ls.threw
     THEN \* the catch block of save logs what limitSize threw
          [fs |-> ls.fs, warnings |-> <<WarnSave>>, calls |-> ls.calls, deleted |-> ls.deleted,
           threw |-> TRUE, mkdir |-> <<>>, file |-> <<>>]
     ELSE IF compressed.len <= max
     THEN IF fault = "mkdir"
          THEN [fs |-> ls.fs, warnings |-> <<WarnSave>>,
                calls |-> Append(ls.calls, "mkdir"), deleted |-> ls.deleted,
                threw |-> FALSE, mkdir |-> getRootDir, file |-> <<>>]
          ELSE IF fault = "writeFile"
          THEN [fs |-> ls.fs, warnings |-> <<WarnSave>>,
                calls |-> ls.calls \o <<"mkdir", "writeFile">>, deleted |-> ls.deleted,
                threw |-> FALSE, mkdir |-> getRootDir, file |-> getImageCachePath(image)]
          ELSE [fs |-> writeFile(ls.fs, name, compressed, t), warnings |-> <<>>,
                calls |-> ls.calls \o <<"mkdir", "writeFile">>, deleted |-> ls.deleted,
                threw |-> FALSE, mkdir |-> getRootDir, file |-> getImageCachePath(image)]
     ELSE [fs |-> ls.fs, warnings |-> <<>>, calls |-> ls.calls, deleted |-> ls.deleted,
           threw |-> FALSE, mkdir |-> <<>>, file |-> <<>>]

\* save whose catch block throws the rejection of mkdir or writeFile again
\* after logging it
cacheSave_rethrow(f, files, image, layers, max, t, bad, fault) ==
  LET compressed == gzip(JSONstringify(layers))
      ls == limitSize(f, files, compressed.len, max, bad)
      name == getImageCacheFile(image)
  IN IF ls.threw
     THEN \* the catch block of save logs what limitSize threw
          [fs |-> ls.fs, warnings |-> <<WarnSave>>, calls |-> ls.calls, deleted |-> ls.deleted,
           threw |-> FALSE, mkdir |-> <<>>, file |-> <<>>]
     ELSE IF compressed.len <= max
     THEN IF fault = "mkdir"
          THEN [fs |-> ls.fs, warnings |-> <<WarnSave>>,
                calls |-> Append(ls.calls, "mkdir"), deleted |-> ls.deleted,
                threw |-> TRUE, mkdir |-> getRootDir, file |-> <<>>]
          ELSE IF fault = "writeFile"
          THEN [fs |-> ls.fs, warnings |-> <<WarnSave>>,
                calls |-> ls.calls \o <<"mkdir", "writeFile">>, deleted |-> ls.deleted,
                threw |-> TRUE, mkdir |-> getRootDir, file |-> getImageCachePath(image)]
          ELSE [fs |-> writeFile(ls.fs, name, compressed, t), warnings |-> <<>>,
                calls |-> ls.calls \o <<"mkdir", "writeFile">>, deleted |-> ls.deleted,
                threw |-> FALSE, mkdir |-> getRootDir, file |-> getImageCachePath(image)]
     ELSE [fs |-> ls.fs, warnings |-> <<>>, calls |-> ls.calls, deleted |-> ls.deleted,
           threw |-> FALSE, mkdir |-> <<>>, file |-> <<>>]

\* save that goes on to write the file after limitSize threw
cacheSave_writeAfterFailure(f, files, image, layers, max, t, bad, fault) ==
  LET compressed == gzip(JSONstringify(layers))
      ls == limitSize(f, files, compressed.len, max, bad)
      name == getImageCacheFile(image)
  IN IF ls.threw
     THEN [fs |-> writeFile(ls.fs, name, compressed, t), warnings |-> <<WarnSave>>,
           calls |-> ls.calls \o <<"mkdir", "writeFile">>, deleted |-> ls.deleted,
           threw |-> FALSE, mkdir |-> getRootDir, file |-> getImageCachePath(image)]
     ELSE IF compressed.len <= max
     THEN IF fault = "mkdir"
          THEN [fs |-> ls.fs, warnings |-> <<WarnSave>>,
                calls |-> Append(ls.calls, "mkdir"), deleted |-> ls.deleted,
                threw |-> FALSE, mkdir |-> getRootDir, file |-> <<>>]
          ELSE IF fault = "writeFile"
          THEN [fs |-> ls.fs, warnings |-> <<WarnSave>>,
                calls |-> ls.calls \o <<"mkdir", "writeFile">>, deleted |-> ls.deleted,
                threw |-> FALSE, mkdir |-> getRootDir, file |-> getImageCachePath(image)]
          ELSE [fs |-> writeFile(ls.fs, name, compressed, t), warnings |-> <<>>,
                calls |-> ls.calls \o <<"mkdir", "writeFile">>, deleted |-> ls.deleted,
                threw |-> FALSE, mkdir |-> getRootDir, file |-> getImageCachePath(image)]
     ELSE [fs |-> ls.fs, warnings |-> <<>>, calls |-> ls.calls, deleted |-> ls.deleted,
           threw |-> FALSE, mkdir |-> <<>>, file |-> <<>>]

\* save(image, layers) at time t on the directory listed as files;
\* bad: the names whose rm throws; fault: "none", "mkdir" or "writeFile"
cacheSave(f, files, image, layers, max, t, bad, fault) ==
  LET compressed == gzip(JSONstringify(layers))
      ls == limitSize(f, files, compressed.len, max, bad)
      name == getImageCacheFile(image)
  IN IF ls.threw
     THEN \* the catch block of save logs what limitSize threw
          [fs |-> ls.fs, warnings |-> <<WarnSave>>, calls |-> ls.calls, deleted |-> ls.deleted,
           threw |-> FALSE, mkdir |-> <<>>, file |-> <<>>]
     ELSE IF compressed.len <= max
     THEN IF fault = "mkdir"
          THEN [fs |-> ls.fs, warnings |-> <<WarnSave>>,
                calls |-> Append(ls.calls, "mkdir"), deleted |-> ls.deleted,
                threw |-> FALSE, mkdir |-> getRootDir, file |-> <<>>]
          ELSE IF fault = "writeFile"
          THEN [fs |-> ls.fs, warnings |-> <<WarnSave>>,
                calls |-> ls.calls \o <<"mkdir", "writeFile">>, deleted |-> ls.deleted,
                threw |-> FALSE, mkdir |-> getRootDir, file |-> getImageCachePath(image)]
          ELSE [fs |-> writeFile(ls.fs, name, compressed, t), warnings |-> <<>>,
                calls |-> ls.calls \o <<"mkdir", "writeFile">>, deleted |-> ls.deleted,
                threw |-> FALSE, mkdir |-> getRootDir, file |-> getImageCachePath(image)]
     ELSE [fs |-> ls.fs, warnings |-> <<>>, calls |-> ls.calls, deleted |-> ls.deleted,
           threw |-> FALSE, mkdir |-> <<>>, file |-> <<>>]

\* init(): limitSize(0), a throw is logged
cacheInit(f, files, max, bad) ==
  LET ls == limitSize(f, files, 0, max, bad)
  IN [fs |-> ls.fs, warnings |-> IF ls.threw THEN <<WarnInit>> ELSE <<>>,
      calls |-> ls.calls, deleted |-> ls.deleted]

\* clearImageCache that names the file by the id alone
clearImageCacheFile_noPrefix(id) == id \o <<".gz">>

\* the name clearImageCache(id) hands to deleteCacheFile
clearImageCacheFile(id) == <<"sha256:">> \o id \o <<".gz">>

\* the ids the image-deletion event carries
EventIds == {<<"1">>, <<"2">>}

\* the Id of the image whose deletion event carries id: the event id is the
\* digest, the Id of an ImageInfo has 'sha256:' in front of it
ImageIdOf(id) == <<"sha256:">> \o id

\* deleteCacheFile(filename): rm without force throws on a missing file
deleteCacheFile(f, name, bad) ==
  IF name \in DOMAIN f /\ f[name].present /\ name \notin bad
  THEN [fs |-> [f EXCEPT ![name] = NoFile], threw |-> FALSE]
  ELSE [fs |-> f, threw |-> TRUE]

\* the failures one operation can meet: at most one of a rejected utimes, a
\* rejected mkdir, a rejected writeFile, an rm that throws on one file, or a
\* readdir or statSync that throws (list)
NoFault == [utimes |-> FALSE, write |-> "none", bad |-> {}, list |-> FALSE]
FaultSets ==
  {NoFault, [NoFault EXCEPT !.utimes = TRUE], [NoFault EXCEPT !.list = TRUE],
   [NoFault EXCEPT !.write = "mkdir"], [NoFault EXCEPT !.write = "writeFile"]}
    \cup {[NoFault EXCEPT !.bad = {n}] : n \in FileNames}
GetFaults == {x \in FaultSets : x.write = "none" /\ x.bad = {} /\ ~x.list}
SaveFaults == {x \in FaultSets : ~x.utimes}
LimitFaults == {x \in FaultSets : ~x.utimes /\ x.write = "none"}
RmFaults == {x \in FaultSets : ~x.utimes /\ x.write = "none" /\ ~x.list}

\* what getSortedFilesByAtime returns: the catch block logs and returns []
\* when readdir or statSync throws
Listings(f, x) == IF x.list THEN {<<>>} ELSE getSortedFilesByAtime(f)
ListWarnings(x) == IF x.list THEN <<WarnList>> ELSE <<>>
Ticks == {t \in {now, now + 1} : t <= MaxClock}

NoOp == [op |-> "none", image |-> <<>>, layers |-> NoLayers, result |-> Absent,
         warnings |-> <<>>, threw |-> FALSE, calls |-> <<>>, deleted |-> <<>>,
         reserved |-> 0, faulty |-> FALSE, mkdir |-> <<>>, file |-> <<>>]

(***************************************************************************)
(* The Explorer (explorer.ts).  A path is a sequence of segments, a segment *)
(* a sequence of pieces; '.wh.' is one piece.                              *)
(***************************************************************************)
WHITEOUT_MARKER == <<".wh.">>
OPAQUE_WHITEOUT_MARKER == <<".wh.", ".wh.", ".opq">>

\* path.basename and path.dirname
basename(p) == IF p = <<>> THEN <<>> ELSE p[Len(p)]
dirname(p) == IF Len(p) <= 1 THEN <<<<".">>>> ELSE SubSeq(p, 1, Len(p) - 1)

\* path.join(dir, name): '.' and empty segments are normalised away
pathJoin(dir, name) ==
  LET d == IF dir = <<<<".">>>> THEN <<>> ELSE dir
      r == IF name = <<>> THEN d ELSE Append(d, name)
  IN IF r = <<>> THEN <<<<".">>>> ELSE r

startsWith(seg, prefix) ==
  Len(seg) >= Len(prefix) /\ SubSeq(seg, 1, Len(prefix)) = prefix

isWhiteout(p) == startsWith(basename(p), WHITEOUT_MARKER)

isOpaqueWhiteout(p) == basename(p) = OPAQUE_WHITEOUT_MARKER

\* getHiddenFile that returns the stripped basename without its directory
getHiddenFile_basenameOnly(p) ==
  IF ~isWhiteout(p) THEN [ok |-> FALSE, path |-> <<>>]
  ELSE [ok |-> TRUE,
        path |-> <<SubSeq(basename(p), Len(WHITEOUT_MARKER) + 1, Len(basename(p)))>>]

\* getHiddenFile throws on a path that is no whiteout
getHiddenFile(p) ==
  IF ~isWhiteout(p) THEN [ok |-> FALSE, path |-> <<>>]
  ELSE LET realBasename == SubSeq(basename(p), Len(WHITEOUT_MARKER) + 1, Len(basename(p)))
       IN [ok |-> TRUE, path |-> pathJoin(dirname(p), realBasename)]

\* onentry without the test for the opaque marker
onentry_noOpaque(entry) ==
  IF isWhiteout(entry.path)
  THEN [call |-> "addWhiteout", path |-> getHiddenFile(entry.path).path,
        threw |-> ~getHiddenFile(entry.path).ok]
  ELSE IF entry.type = "Directory"
  THEN [call |-> "addDirectory", path |-> entry.path, threw |-> FALSE]
  ELSE IF entry.type = "SymbolicLink"
  THEN [call |-> "addSymlink", path |-> entry.path, threw |-> FALSE]
  ELSE [call |-> "addFile", path |-> entry.path, threw |-> FALSE]

\* the provider call one tar entry leads to; threw: getHiddenFile threw
\* instead
onentry(entry) ==
  IF isWhiteout(entry.path)
  THEN IF isOpaqueWhiteout(entry.path)
       THEN [call |-> "addOpaqueWhiteout", path |-> dirname(entry.path), threw |-> FALSE]
       ELSE [call |-> "addWhiteout", path |-> getHiddenFile(entry.path).path,
             threw |-> ~getHiddenFile(entry.path).ok]
  ELSE IF entry.type = "Directory"
  THEN [call |-> "addDirectory", path |-> entry.path, threw |-> FALSE]
  ELSE IF entry.type = "SymbolicLink"
  THEN [call |-> "addSymlink", path |-> entry.path, threw |-> FALSE]
  ELSE [call |-> "addFile", path |-> entry.path, threw |-> FALSE]

\* the loop over the reversed history that fills the layers from the first on
RECURSIVE alignHistory_fromFirst(_, _, _)
alignHistory_fromFirst(layersResult, reversed, i) ==
  IF reversed = <<>> THEN [ok |-> TRUE, layers |-> layersResult]
  ELSE LET histo == Head(reversed)
           k == Len(layersResult) + 1 - i
       IN IF histo.empty_layer
          THEN alignHistory_fromFirst(layersResult, Tail(reversed), i)
          ELSE IF i < 1
          THEN [ok |-> FALSE, layers |-> <<>>]
          ELSE alignHistory_fromFirst([layersResult EXCEPT ![k].createdBy = histo.created_by],
                                      Tail(reversed), i - 1)

\* the loop over the reversed history in which an empty record takes a layer
\* as well
RECURSIVE alignHistory_noSkip(_, _, _)
alignHistory_noSkip(layersResult, reversed, i) ==
  IF reversed = <<>> THEN [ok |-> TRUE, layers |-> layersResult]
  ELSE LET histo == Head(reversed)
       IN IF i < 1
          THEN [ok |-> FALSE, layers |-> <<>>]
          ELSE IF histo.empty_layer
          THEN alignHistory_noSkip(layersResult, Tail(reversed), i - 1)
          ELSE alignHistory_noSkip([layersResult EXCEPT ![i].createdBy = histo.created_by],
                                   Tail(reversed), i - 1)

\* the loop over the reversed history that stops quietly once every layer
\* has its created_by
RECURSIVE alignHistory_dropExtra(_, _, _)
alignHistory_dropExtra(layersResult, reversed, i) ==
  IF reversed = <<>> THEN [ok |-> TRUE, layers |-> layersResult]
  ELSE LET histo == Head(reversed)
       IN IF histo.empty_layer
          THEN alignHistory_dropExtra(layersResult, Tail(reversed), i)
          ELSE IF i < 1
          THEN [ok |-> TRUE, layers |-> layersResult]
          ELSE alignHistory_dropExtra([layersResult EXCEPT ![i].createdBy = histo.created_by],
                                      Tail(reversed), i - 1)

\* the loop over the reversed history: i is the position of the layer that
\* receives the next created_by (1-based; the code counts from 0).  The
\* assignment to layersResult[-1] throws a TypeError.
RECURSIVE alignHistory(_, _, _)
alignHistory(layersResult, reversed, i) ==
  IF reversed = <<>> THEN [ok |-> TRUE, layers |-> layersResult]
  ELSE LET histo == Head(reversed)
       IN IF histo.empty_layer
          THEN alignHistory(layersResult, Tail(reversed), i)
          ELSE IF i < 1
          THEN [ok |-> FALSE, layers |-> <<>>]
          ELSE alignHistory([layersResult EXCEPT ![i].createdBy = histo.created_by],
                            Tail(reversed), i - 1)

Reverse(q) == [i \in DOMAIN q |-> q[Len(q) + 1 - i]]

\* layer.substring(0, 12): a layer path is kept as its first 12 characters
\* and the rest
substring12(layer) == layer[1]

\* the loop over manifest[0].Layers: one layer object per layer archive, the
\* provider calls of its entries; a layer archive that cannot be listed throws
RECURSIVE listLayers(_, _, _, _)
listLayers(a, k, layersResult, calls) ==
  IF k > Len(a.layers) THEN [ok |-> TRUE, layers |-> layersResult, calls |-> calls]
  ELSE IF k \in a.unreadable
  THEN [ok |-> FALSE, layers |-> layersResult, calls |-> calls]
  ELSE listLayers(a, k + 1,
                  Append(layersResult,
                         [id |-> substring12(a.layers[k]), createdBy |-> Undefined]),
                  calls \o [j \in DOMAIN a.entries[k] |-> onentry(a.entries[k][j])])

\* getLayersFromImageArchive without the test of manifest.length: manifest[0]
\* of an empty manifest is undefined and reading its Layers throws
getLayersFromImageArchive_noEmptyTest(a) ==
  IF a.manifest = "malformed"
  THEN [ok |-> FALSE, value |-> NoLayers, calls |-> <<>>, reads |-> <<"manifest.json">>]
  ELSE IF a.manifest = "empty"
  THEN [ok |-> FALSE, value |-> NoLayers, calls |-> <<>>, reads |-> <<"manifest.json">>]
  ELSE IF a.config = "malformed"
  THEN [ok |-> FALSE, value |-> NoLayers, calls |-> <<>>,
        reads |-> <<"manifest.json", "config">>]
  ELSE LET listed == listLayers(a, 1, <<>>, <<>>)
           aligned == alignHistory(listed.layers, Reverse(a.history), Len(listed.layers))
       IN IF ~listed.ok
          THEN [ok |-> FALSE, value |-> NoLayers, calls |-> listed.calls,
                reads |-> <<"manifest.json", "config", "layers">>]
          ELSE [ok |-> aligned.ok,
                value |-> [layers |-> aligned.layers],
                calls |-> listed.calls,
                reads |-> <<"manifest.json", "config", "layers">>]

\* getLayersFromImageArchive on the extracted archive a
getLayersFromImageArchive(a) ==
  IF a.manifest = "malformed"
  THEN [ok |-> FALSE, value |-> NoLayers, calls |-> <<>>, reads |-> <<"manifest.json">>]
  ELSE IF a.manifest = "empty"
  THEN [ok |-> TRUE, value |-> NoLayers, calls |-> <<>>, reads |-> <<"manifest.json">>]
  ELSE IF a.config = "malformed"
  THEN [ok |-> FALSE, value |-> NoLayers, calls |-> <<>>,
        reads |-> <<"manifest.json", "config">>]
  ELSE LET listed == listLayers(a, 1, <<>>, <<>>)
           aligned == alignHistory(listed.layers, Reverse(a.history), Len(listed.layers))
       IN IF ~listed.ok
          THEN [ok |-> FALSE, value |-> NoLayers, calls |-> listed.calls,
                reads |-> <<"manifest.json", "config", "layers">>]
          ELSE [ok |-> aligned.ok,
                value |-> [layers |-> aligned.layers],
                calls |-> listed.calls,
                reads |-> <<"manifest.json", "config", "layers">>]

\* the archives the container engine exports in the model
OneLayer == [manifest |-> "one", config |-> "ok", layers |-> << <<"A", "/layer.tar">> >>,
             history |-> <<>>, entries |-> << <<>> >>, unreadable |-> {}]
HistoEmpty == [created_by |-> "x", empty_layer |-> TRUE]
HistoX == [created_by |-> "x", empty_layer |-> FALSE]
ExArchives ==
  {[OneLayer EXCEPT !.manifest = "malformed"],
   [OneLayer EXCEPT !.manifest = "empty"],
   [OneLayer EXCEPT !.config = "malformed"],
   [OneLayer EXCEPT !.unreadable = {1}],
   [OneLayer EXCEPT !.history = <<HistoX, HistoX>>],
   [OneLayer EXCEPT !.history = <<HistoX, HistoEmpty>>,
                    !.entries = << << [path |-> << <<"lib">> >>, type |-> "Directory"],
                                      [path |-> << <<"lib64">> >>, type |-> "SymbolicLink"],
                                      [path |-> << <<"1.txt">> >>, type |-> "File"],
                                      [path |-> << <<".wh.", "2.txt">> >>, type |-> "File"],
                                      [path |-> << <<"a">>, OPAQUE_WHITEOUT_MARKER >>,
                                       type |-> "File"] >> >>],
   OneLayer}

\* no getFilesystemLayers call; error holds the message of the error thrown,
\* <<>> when none was, thrown its class; logged holds what console.error got,
\* reads the documents the parser read, provided the calls the provider got
ExIdle == [pc |-> "idle", image |-> <<>>, archive |-> OneLayer, cached |-> Absent,
           parsed |-> NoLayers, saved |-> <<>>, result |-> NoLayers, error |-> <<>>,
           thrown |-> "none", logged |-> <<>>, trace |-> <<>>, tmp |-> "none",
           reads |-> <<>>, provided |-> <<>>]

\* a save call that has not started.  miss: the get that preceded it returned
\* undefined; names: what readdir returned; files: the part of the listing
\* limitSize has still to scan; removed: the files its rm calls deleted;
\* missing: the file on which its rm was rejected; fd: the descriptor of
\* writeFile ("none", "open", or "unlinked" once the file it was opened on
\* has been removed)
NoCall == [pc |-> "idle", image |-> <<>>, layers |-> NoLayers, miss |-> FALSE,
           names |-> {}, files |-> <<>>, acc |-> 0, removed |-> {},
           missing |-> <<>>, fd |-> "none", outcome |-> "none"]

\* no save call in progress; writer: the call whose writeFile completed last;
\* after: the call made once both had returned; over: the total size was
\* above the budget when that call started
NoRace == [call |-> [p \in 1..2 |-> NoCall], writer |-> 0, after |-> "none",
           over |-> FALSE]

ErrorPrefix == "error extracting image layers: "
WarnRmTmp == "unable to delete directory"

\* no mocked limitSize call
NoMock == [files |-> <<>>, reserved |-> 0, done |-> FALSE, deleted |-> <<>>]

CacheInit ==
  /\ fs \in [FileNames -> {NoFile} \cup [present : {TRUE}, atime : 0..1, data : InitContents]]
  /\ budget \in Budgets
  /\ now = 1
  /\ last = NoOp

InitStep ==
  \E x \in LimitFaults : \E files \in Listings(fs, x) :
    LET r == cacheInit(fs, files, budget, x.bad)
    IN /\ fs' = r.fs
       /\ last' = [NoOp EXCEPT !.op = "init", !.warnings = ListWarnings(x) \o r.warnings,
                               !.calls = r.calls,
                               !.deleted = r.deleted, !.faulty = (x # NoFault)]
       /\ UNCHANGED <<budget, now>>

GetOp(image) ==
  \E t \in Ticks, x \in GetFaults :
    LET r == cacheGet(fs, image, t, x.utimes)
    IN /\ fs' = r.fs
       /\ now' = t
       /\ last' = [NoOp EXCEPT !.op = "get", !.image = image, !.result = r.result,
                               !.warnings = r.warnings, !.threw = r.threw,
                               !.calls = r.calls, !.faulty = (x # NoFault)]
       /\ UNCHANGED budget

SaveOp(image, layers) ==
  \E t \in Ticks, x \in SaveFaults : \E files \in Listings(fs, x) :
    LET r == cacheSave(fs, files, image, layers, budget, t, x.bad, x.write)
    IN /\ fs' = r.fs
       /\ now' = t
       /\ last' = [NoOp EXCEPT !.op = "save", !.image = image, !.layers = layers,
                               !.warnings = ListWarnings(x) \o r.warnings,
                               !.threw = r.threw, !.calls = r.calls,
                               !.deleted = r.deleted, !.faulty = (x # NoFault),
                               !.mkdir = r.mkdir, !.file = r.file]
       /\ UNCHANGED budget

\* limitSize(reserved), called directly
LimitStep ==
  \E reserved \in {0, 300000}, x \in LimitFaults : \E files \in Listings(fs, x) :
    LET r == limitSize(fs, files, reserved, budget, x.bad)
    IN /\ fs' = r.fs
       /\ last' = [NoOp EXCEPT !.op = "limitSize", !.reserved = reserved,
                               !.warnings = ListWarnings(x), !.threw = r.threw,
                               !.calls = r.calls, !.deleted = r.deleted,
                               !.faulty = (x # NoFault)]
       /\ UNCHANGED <<budget, now>>

GetStep == \E image \in ImageIds : GetOp(image)

\* save of a layer list drawn from Lists
SaveStep(Lists) == \E image \in ImageIds, layers \in Lists : SaveOp(image, layers)

ClearStep ==
  \E id \in EventIds, x \in RmFaults :
    LET r == deleteCacheFile(fs, clearImageCacheFile(id), x.bad)
    IN /\ fs' = r.fs
       /\ last' = [NoOp EXCEPT !.op = "clearImageCache", !.image = id, !.threw = r.threw,
                               !.calls = <<"rm">>, !.faulty = (x # NoFault),
                               !.deleted = IF r.threw THEN <<>>
                                           ELSE <<clearImageCacheFile(id)>>]
       /\ UNCHANGED <<budget, now>>

(***************************************************************************)
(* Spec: any sequence of init, get, save and clearImageCache calls, one    *)
(* at a time, on a cache directory with arbitrary content.                 *)
(***************************************************************************)
Init == CacheInit /\ prev = NoOp /\ prev2 = NoOp /\ mock = NoMock /\ ex = ExIdle /\ race = NoRace

DoInit == InitStep /\ UNCHANGED <<prev, prev2, mock, ex, race>>
DoGet == GetStep /\ UNCHANGED <<prev, prev2, mock, ex, race>>
DoSave == SaveStep(SampleLists) /\ UNCHANGED <<prev, prev2, mock, ex, race>>
DoClearImageCache == ClearStep /\ UNCHANGED <<prev, prev2, mock, ex, race>>

Next == DoInit \/ DoGet \/ DoSave \/ DoClearImageCache

Spec == Init /\ [][Next]_vars

(***************************************************************************)
(* SpecRoundTrip: one save, then one get, on arbitrary cache content.      *)
(***************************************************************************)
SaveFirst == last.op = "none" /\ SaveStep(LayerLists) /\ prev' = last /\ UNCHANGED <<prev2, mock, ex, race>>
GetSecond == last.op = "save" /\ GetStep /\ prev' = last /\ UNCHANGED <<prev2, mock, ex, race>>

RoundTripNext == SaveFirst \/ GetSecond

SpecRoundTrip == Init /\ [][RoundTripNext]_vars

(***************************************************************************)
(* SpecSaveClearGet: one save, then one clearImageCache, then one get, on  *)
(* arbitrary cache content.                                                *)
(***************************************************************************)
SaveThenClear ==
  /\ last.op = "none" /\ SaveStep(SampleLists)
  /\ prev' = last /\ prev2' = prev /\ UNCHANGED <<mock, ex, race>>
ClearSecond ==
  /\ last.op = "save" /\ ClearStep
  /\ prev' = last /\ prev2' = prev /\ UNCHANGED <<mock, ex, race>>
GetThird ==
  /\ last.op = "clearImageCache" /\ GetStep
  /\ prev' = last /\ prev2' = prev /\ UNCHANGED <<mock, ex, race>>

SaveClearGetNext == SaveThenClear \/ ClearSecond \/ GetThird

SpecSaveClearGet == Init /\ [][SaveClearGetNext]_vars

(***************************************************************************)
(* SpecEvict: one eviction pass on arbitrary cache content, started by a   *)
(* direct limitSize(reserved) call or inside a save.                       *)
(***************************************************************************)
EvictDirect == last.op = "none" /\ LimitStep /\ UNCHANGED <<prev, prev2, mock, ex, race>>
EvictInSave ==
  last.op = "none" /\ SaveStep(SampleLists) /\ UNCHANGED <<prev, prev2, mock, ex, race>>

EvictNext == EvictDirect \/ EvictInSave

SpecEvict == Init /\ [][EvictNext]_vars

(***************************************************************************)
(* SpecLimitFs: one limitSize(reserved) call on a cache directory of up to *)
(* three files with arbitrary content.                                     *)
(***************************************************************************)
\* a file of the cache directory that belongs to no image of the model
OtherName == <<"sha256:", "3", ".gz">>

LimitFsInit ==
  /\ fs \in [FileNames \cup {OtherName} ->
              {NoFile} \cup [present : {TRUE}, atime : 0..1, data : InitContents]]
  /\ budget \in Budgets
  /\ now = 1
  /\ last = NoOp
  /\ prev = NoOp
  /\ prev2 = NoOp
  /\ mock = NoMock
  /\ ex = ExIdle /\ race = NoRace

LimitOnce == last.op = "none" /\ LimitStep /\ UNCHANGED <<prev, prev2, mock, ex, race>>

LimitFsNext == LimitOnce

SpecLimitFs == LimitFsInit /\ [][LimitFsNext]_vars

(***************************************************************************)
(* SpecGetLimit: one get, then one limitSize(reserved), on a cache         *)
(* directory of up to three files with arbitrary content.                  *)
(***************************************************************************)
GetFirst ==
  last.op = "none" /\ GetStep /\ prev' = last /\ UNCHANGED <<prev2, mock, ex, race>>
LimitSecond ==
  last.op = "get" /\ LimitStep /\ prev' = last /\ UNCHANGED <<prev2, mock, ex, race>>

GetLimitNext == GetFirst \/ LimitSecond

SpecGetLimit == LimitFsInit /\ [][GetLimitNext]_vars

(***************************************************************************)
(* SpecLimitTwice: limitSize(reserved) twice in a row on a cache directory *)
(* of up to three files with arbitrary content.                            *)
(***************************************************************************)
LimitFirst ==
  last.op = "none" /\ LimitStep /\ prev' = last /\ UNCHANGED <<prev2, mock, ex, race>>
LimitAgain ==
  /\ last.op = "limitSize" /\ prev.op = "none" /\ prev2.op = "none"
  /\ LimitStep /\ prev' = last /\ prev2' = prev /\ UNCHANGED <<mock, ex, race>>

LimitTwiceNext == LimitFirst \/ LimitAgain

SpecLimitTwice == LimitFsInit /\ [][LimitTwiceNext]_vars

(***************************************************************************)
(* SpecLimit: limitSize(reserved) on a listing that getSortedFilesByAtime  *)
(* is mocked to return, deleteCacheFile being mocked too (cache.spec.ts).  *)
(* The files of the listing are named by their position in it.             *)
(***************************************************************************)
ListedSizes == {30, 300000}
ReservedValues == {0, 300000}

Listing(sizes) == [i \in DOMAIN sizes |-> [name |-> i, size |-> sizes[i]]]

LimitInit ==
  /\ fs = [n \in FileNames |-> NoFile]
  /\ budget \in Budgets
  /\ now = 1
  /\ last = NoOp
  /\ prev = NoOp
  /\ prev2 = NoOp
  /\ ex = ExIdle /\ race = NoRace
  /\ \E sizes \in SeqsUpTo(ListedSizes, MaxListing), r \in ReservedValues :
       mock = [files |-> Listing(sizes), reserved |-> r, done |-> FALSE, deleted |-> <<>>]

MockedLimitSize ==
  /\ ~mock.done
  /\ LET r == limitScan(mock.files, mock.reserved, budget, {}, <<>>)
     IN mock' = [mock EXCEPT !.done = TRUE, !.deleted = r.deleted]
  /\ UNCHANGED <<fs, budget, now, last, prev, prev2, ex, race>>

LimitNext == MockedLimitSize

SpecLimit == LimitInit /\ [][LimitNext]_vars

(***************************************************************************)
(* SpecExplorer: getFilesystemLayers calls, one at a time, step by step.   *)
(***************************************************************************)
\* the call starts: image and the archive the engine will export for it
ExStart ==
  /\ ex.pc \in {"idle", "returned", "threw"}
  /\ ex.tmp # "removing"
  /\ \E image \in ImageIds, a \in ExArchives :
       ex' = [ExIdle EXCEPT !.pc = "get", !.image = image, !.archive = a]
  /\ UNCHANGED <<fs, budget, now, last, prev, prev2, mock, race>>

\* the call without "if (cached) return cached"
ExGet_noReturn ==
  /\ ex.pc = "get"
  /\ GetOp(ex.image)
  /\ ex' = [ex EXCEPT !.pc = "mkdtemp", !.cached = last'.result,
                      !.trace = Append(@, "get")]
  /\ UNCHANGED <<prev, prev2, mock, race>>

\* const cached = await this.cache.get(image); if (cached) return cached
ExGet ==
  /\ ex.pc = "get"
  /\ GetOp(ex.image)
  /\ ex' = IF last'.result.defined
           THEN [ex EXCEPT !.pc = "returned", !.cached = last'.result,
                           !.result = last'.result.value, !.trace = Append(@, "get")]
           ELSE [ex EXCEPT !.pc = "mkdtemp", !.trace = Append(@, "get")]
  /\ UNCHANGED <<prev, prev2, mock, race>>

\* mkdtemp is awaited before the try block: its error is thrown as it is
ExMkdtemp ==
  /\ ex.pc = "mkdtemp"
  /\ \E ok \in BOOLEAN :
       ex' = IF ok
             THEN [ex EXCEPT !.pc = "saveImage", !.tmp = "exists",
                             !.trace = Append(@, "mkdtemp")]
             ELSE [ex EXCEPT !.pc = "threw", !.error = <<"mkdtemp failed">>,
                             !.thrown = "SystemError",
                             !.trace = Append(@, "mkdtemp")]
  /\ UNCHANGED <<fs, budget, now, last, prev, prev2, mock, race>>

\* the catch block without the finally block
Catch_noFinally(cause, step) ==
  [ex EXCEPT !.pc = "threw", !.error = <<ErrorPrefix, cause>>, !.thrown = "Error",
             !.trace = Append(@, step)]

\* what the catch and the finally block do after cause was thrown in the try
\* block: the error is wrapped, the removal of tmpdir is started, not awaited
Catch(cause, step) ==
  [ex EXCEPT !.pc = "threw", !.error = <<ErrorPrefix, cause>>, !.thrown = "Error",
             !.tmp = "removing", !.trace = @ \o <<step, "rm">>]

\* containerEngine.saveImage: exports, fails, or is cancelled through token
ExSaveImage ==
  /\ ex.pc = "saveImage"
  /\ \E outcome \in {"ok", "failed", "cancelled"} :
       ex' = IF outcome = "ok"
             THEN [ex EXCEPT !.pc = "extract", !.trace = Append(@, "saveImage")]
             ELSE Catch(outcome, "saveImage")
  /\ UNCHANGED <<fs, budget, now, last, prev, prev2, mock, race>>

\* nodeTar.extract
ExExtract ==
  /\ ex.pc = "extract"
  /\ \E ok \in BOOLEAN :
       ex' = IF ok
             THEN [ex EXCEPT !.pc = "parse", !.trace = Append(@, "extract")]
             ELSE Catch("extract failed", "extract")
  /\ UNCHANGED <<fs, budget, now, last, prev, prev2, mock, race>>

ProviderCalls(r) == [i \in DOMAIN r.calls |-> r.calls[i].call]

\* the call that goes on to save whatever the parser did
ExParse_saveAnyway ==
  /\ ex.pc = "parse"
  /\ LET r == getLayersFromImageArchive(ex.archive)
     IN ex' = [ex EXCEPT !.pc = "save", !.parsed = r.value,
                         !.reads = r.reads, !.provided = r.calls,
                         !.trace = Append(@, "parse") \o ProviderCalls(r)]
  /\ UNCHANGED <<fs, budget, now, last, prev, prev2, mock, race>>

\* const result = await this.getLayersFromImageArchive(tmpdir)
ExParse ==
  /\ ex.pc = "parse"
  /\ LET r == getLayersFromImageArchive(ex.archive)
     IN ex' = IF r.ok
              THEN [ex EXCEPT !.pc = "save", !.parsed = r.value,
                              !.reads = r.reads, !.provided = r.calls,
                              !.trace = Append(@, "parse") \o ProviderCalls(r)]
              ELSE [Catch("parse failed", "parse") EXCEPT
                      !.reads = r.reads, !.provided = r.calls,
                      !.trace = Append(ex.trace, "parse") \o ProviderCalls(r) \o <<"rm">>]
  /\ UNCHANGED <<fs, budget, now, last, prev, prev2, mock, race>>

\* await this.cache.save(image, result); return result; then the finally block
ExSave ==
  /\ ex.pc = "save"
  /\ SaveOp(ex.image, ex.parsed)
  /\ ex' = IF last'.threw
           THEN [Catch("save failed", "save") EXCEPT !.saved = Append(@, last'.layers)]
           ELSE [ex EXCEPT !.pc = "returned", !.saved = Append(@, last'.layers),
                           !.result = ex.parsed, !.tmp = "removing",
                           !.trace = @ \o <<"save", "rm">>]
  /\ UNCHANGED <<prev, prev2, mock, race>>

\* the removal of tmpdir settles; a rejection is logged with console.error
ExRmDone ==
  /\ ex.tmp = "removing"
  /\ \E ok \in BOOLEAN :
       ex' = IF ok
             THEN [ex EXCEPT !.tmp = "removed"]
             ELSE [ex EXCEPT !.tmp = "rm failed", !.logged = Append(@, WarnRmTmp)]
  /\ UNCHANGED <<fs, budget, now, last, prev, prev2, mock, race>>

ExplorerNext ==
  ExStart \/ ExGet \/ ExMkdtemp \/ ExSaveImage \/ ExExtract \/ ExParse \/ ExSave
    \/ ExRmDone

SpecExplorer == Init /\ [][ExplorerNext]_vars

(***************************************************************************)
(* SpecParser: the getFilesystemLayers call from getLayersFromImageArchive *)
(* on, after a miss on an empty cache, on image archives with any history  *)
(* and with any kind of entry.                                             *)
(***************************************************************************)
LayerNames == <<"A", "B", "C", "D", "E">>

\* manifest[0].Layers of an archive of n layers
ArchiveLayers(n) == [k \in 1..n |-> <<LayerNames[k], "/layer.tar">>]

\* the records of config.history
HistoryRecords ==
  {[created_by |-> c, empty_layer |-> FALSE] : c \in {"x", "y", "z"}} \cup {HistoEmpty}

\* archives of up to MaxArchiveLayers layers without entries, with any history
HistoryArchives ==
  {[manifest |-> "one", config |-> "ok", layers |-> ArchiveLayers(n), history |-> h,
    entries |-> [k \in 1..n |-> <<>>], unreadable |-> {}] :
     n \in 0..MaxArchiveLayers, h \in SeqsUpTo(HistoryRecords, MaxHistory)}

\* the paths of tar entries: a parent directory and a last segment
EntryParents == {<<>>, << <<"a">> >>, << <<"a">>, <<"b">> >>, << <<".wh.", "d">> >>}
EntryBasenames ==
  {<<"c">>, <<".wh.", "c">>, OPAQUE_WHITEOUT_MARKER, <<".wh.">>, <<"c", ".wh.">>,
   <<".wh.", ".wh.", "c">>, <<".wh.", ".wh.", ".opq", "x">>}
EntryTypes == {"File", "Directory", "SymbolicLink"}
Entries ==
  {[path |-> Append(d, b), type |-> t] :
     d \in EntryParents, b \in EntryBasenames, t \in EntryTypes}

\* archives of one layer with one entry
EntryArchives == {[OneLayer EXCEPT !.entries = << <<e>> >>] : e \in Entries}

\* archives with an empty manifest list, whatever else they hold
EmptyManifestArchives ==
  {[a EXCEPT !.manifest = "empty"] :
     a \in {OneLayer, [OneLayer EXCEPT !.config = "malformed"],
            [OneLayer EXCEPT !.unreadable = {1}],
            [OneLayer EXCEPT !.history = <<HistoX, HistoX>>]}}

ParserArchives == HistoryArchives \cup EntryArchives \cup EmptyManifestArchives

ParserInit ==
  /\ fs = [n \in FileNames |-> NoFile]
  /\ budget = MiB
  /\ now = 1
  /\ last = NoOp
  /\ prev = NoOp
  /\ prev2 = NoOp
  /\ mock = NoMock
  /\ race = NoRace
  /\ \E a \in ParserArchives :
       ex = [ExIdle EXCEPT !.pc = "parse", !.image = <<"sha256:", "1">>, !.archive = a,
                           !.tmp = "exists",
                           !.trace = <<"get", "mkdtemp", "saveImage", "extract">>]

ParserNext == ExParse \/ ExSave \/ ExRmDone

SpecParser == ParserInit /\ [][ParserNext]_vars

(***************************************************************************)
(* SpecRace: two save calls in flight at once, as two getFilesystemLayers  *)
(* calls make them, interleaved at every await of save and limitSize, with *)
(* get calls in between; once both have returned, one more init or save    *)
(* runs alone.  No filesystem failure is injected.                         *)
(***************************************************************************)
Calls == 1..2

Other(p) == 3 - p

\* the same image identity names the same archive, hence the same layers
RaceInit ==
  /\ fs \in [FileNames -> {NoFile} \cup [present : {TRUE}, atime : {0}, data : InitContents]]
  /\ budget \in Budgets
  /\ now = 1
  /\ last = NoOp
  /\ prev = NoOp
  /\ prev2 = NoOp
  /\ mock = NoMock
  /\ ex = ExIdle
  /\ \E image2 \in ImageIds, layers1, layers2 \in SampleLists :
       LET image1 == <<"sha256:", "1">>
           start(image, layers) ==
             [NoCall EXCEPT !.pc = "readdir", !.image = image, !.layers = layers,
                            !.miss = ~cacheGet(fs, image, now, FALSE).result.defined]
       IN /\ image2 = image1 => layers2 = layers1
          /\ race = [NoRace EXCEPT !.call = (1 :> start(image1, layers1))
                                             @@ (2 :> start(image2, layers2))]

compressedOf(c) == gzip(JSONstringify(c.layers))

\* "const files = await readdir(dir)": the names in the directory
RaceReaddir(p) ==
  LET c == race.call[p]
  IN /\ c.pc = "readdir"
     /\ race' = [race EXCEPT !.call[p].pc = "stat", !.call[p].names = PresentNames(fs)]
     /\ UNCHANGED <<fs, budget, now, last, prev, prev2, mock, ex>>

\* the statSync of every name, the sort, and "let acc = reserved": statSync
\* throws ENOENT on a name removed since readdir, and the listing is []
RaceStat(p) ==
  LET c == race.call[p]
      listed == [n \in FileNames |-> IF n \in c.names THEN fs[n] ELSE NoFile]
  IN /\ c.pc = "stat"
     /\ \E files \in IF \E n \in c.names : ~fs[n].present THEN {<<>>}
                      ELSE getSortedFilesByAtime(listed) :
          race' = [race EXCEPT !.call[p].pc = "scan", !.call[p].files = files,
                               !.call[p].acc = compressedOf(c).len]
     /\ UNCHANGED <<fs, budget, now, last, prev, prev2, mock, ex>>

\* the iterations of the loop of limitSize that keep their file: they run
\* without an await, up to the next file to delete
RECURSIVE SkipKept(_, _, _)
SkipKept(files, acc, max) ==
  IF files = <<>> THEN [files |-> files, acc |-> acc]
  ELSE IF acc + Head(files).size > max THEN [files |-> files, acc |-> acc]
  ELSE SkipKept(Tail(files), acc + Head(files).size, max)

\* the loop of limitSize up to and including its next "await deleteCacheFile";
\* at the end of the listing, the test of save on compressed.length
RaceScan(p) ==
  LET c == race.call[p]
      k == SkipKept(c.files, c.acc, budget)
  IN /\ c.pc = "scan"
     /\ IF k.files = <<>>
        THEN /\ race' = IF compressedOf(c).len <= budget
                         THEN [race EXCEPT !.call[p].pc = "open", !.call[p].files = <<>>,
                                           !.call[p].acc = k.acc]
                         ELSE [race EXCEPT !.call[p].pc = "done", !.call[p].files = <<>>,
                                           !.call[p].acc = k.acc,
                                           !.call[p].outcome = "skipped"]
             /\ UNCHANGED fs
        ELSE LET name == Head(k.files).name
                 r == deleteCacheFile(fs, name, {})
                 o == race.call[Other(p)]
                 unlinks == o.fd = "open" /\ getImageCacheFile(o.image) = name
             IN IF r.threw
                THEN \* rm rejects with ENOENT; the catch block of save logs it
                     /\ race' = [race EXCEPT !.call[p].pc = "done",
                                             !.call[p].files = k.files,
                                             !.call[p].acc = k.acc,
                                             !.call[p].missing = name,
                                             !.call[p].outcome = "aborted"]
                     /\ UNCHANGED fs
                ELSE /\ fs' = r.fs
                     /\ race' = [race EXCEPT !.call[p].files = Tail(k.files),
                                             !.call[p].acc = k.acc,
                                             !.call[p].removed = @ \cup {name},
                                             !.call[Other(p)].fd =
                                               IF unlinks THEN "unlinked" ELSE @]
     /\ UNCHANGED <<budget, now, last, prev, prev2, mock, ex>>

\* mkdir, then writeFile opens the file: it is created, or truncated in place
RaceOpen(p) ==
  LET c == race.call[p]
  IN /\ c.pc = "open"
     /\ fs' = writeFile(fs, getImageCacheFile(c.image), NoData, now)
     /\ race' = [race EXCEPT !.call[p].pc = "write", !.call[p].fd = "open"]
     /\ UNCHANGED <<budget, now, last, prev, prev2, mock, ex>>

\* writeFile writes compressed through its descriptor and resolves
RaceWrite(p) ==
  LET c == race.call[p]
      name == getImageCacheFile(c.image)
  IN /\ c.pc = "write"
     /\ fs' = IF c.fd = "open" THEN [fs EXCEPT ![name].data = compressedOf(c)] ELSE fs
     /\ race' = [race EXCEPT !.call[p].pc = "done", !.call[p].fd = "none",
                             !.call[p].outcome = "wrote", !.writer = p]
     /\ UNCHANGED <<budget, now, last, prev, prev2, mock, ex>>

BothReturned == \A p \in Calls : race.call[p].pc = "done"

\* a get while the two calls are in flight or once they have returned
RaceGet ==
  /\ race.after = "none"
  /\ \E p \in Calls :
       LET image == race.call[p].image
           r == cacheGet(fs, image, now, FALSE)
       IN /\ fs' = r.fs
          /\ last' = [NoOp EXCEPT !.op = "get", !.image = image, !.result = r.result,
                                  !.warnings = r.warnings, !.calls = r.calls]
  /\ UNCHANGED <<budget, now, prev, prev2, mock, ex, race>>

\* init() alone, after both calls have returned
RaceThenInit ==
  /\ BothReturned /\ race.after = "none"
  /\ \E files \in getSortedFilesByAtime(fs) :
       fs' = cacheInit(fs, files, budget, {}).fs
  /\ race' = [race EXCEPT !.after = "init", !.over = TotalSize(fs) > budget]
  /\ UNCHANGED <<budget, now, last, prev, prev2, mock, ex>>

\* save(image, layers) alone, after both calls have returned
RaceThenSave ==
  /\ BothReturned /\ race.after = "none"
  /\ \E image \in ImageIds, layers \in SampleLists :
       \E files \in getSortedFilesByAtime(fs) :
         fs' = cacheSave(fs, files, image, layers, budget, now, {}, "none").fs
  /\ race' = [race EXCEPT !.after = "save", !.over = TotalSize(fs) > budget]
  /\ UNCHANGED <<budget, now, last, prev, prev2, mock, ex>>

RaceNext ==
  \/ \E p \in Calls : RaceReaddir(p)
  \/ \E p \in Calls : RaceStat(p)
  \/ \E p \in Calls : RaceScan(p)
  \/ \E p \in Calls : RaceOpen(p)
  \/ \E p \in Calls : RaceWrite(p)
  \/ RaceGet
  \/ RaceThenInit
  \/ RaceThenSave

SpecRace == RaceInit /\ [][RaceNext]_vars

(***************************************************************************)
(* Properties of the cache.                                                *)
(***************************************************************************)
\* a save without failure, then a get of the same image without failure,
\* the compressed layer list being within the budget
RoundTripCase ==
  /\ last.op = "get" /\ prev.op = "save"
  /\ last.image = prev.image
  /\ ~last.faulty /\ ~prev.faulty
  /\ gzipLength(JSONstringify(prev.layers)) <= budget

\* C1: after save(identity, L) with the compressed size within the budget,
\* get(identity) returns a value equal to L, whatever the cache held before.
C1_RoundTrip ==
  RoundTripCase => last.result = [defined |-> TRUE, value |-> prev.layers]

C1_Witness ==
  /\ RoundTripCase
  /\ last.result.defined
  /\ \E i \in DOMAIN prev.layers.layers : prev.layers.layers[i].createdBy = Undefined

\* C2: right after every init and every save that met no failure, the total
\* size of the files of the cache root is within the budget.
C2_BudgetAfterInitAndSave ==
  (last.op \in {"init", "save"} /\ ~last.faulty) => TotalSize(fs) <= budget

C2_Witness ==
  /\ last.op = "save" /\ ~last.faulty
  /\ last.deleted # <<>>
  /\ "writeFile" \in Range(last.calls)
  /\ PresentNames(fs) = FileNames
  /\ TotalSize(fs) <= budget

\* sum of the sizes of the listed files whose position is in S
RECURSIVE ListedSum(_)
ListedSum(S) ==
  IF S = {} THEN 0
  ELSE LET i == CHOOSE x \in S : TRUE IN mock.files[i].size + ListedSum(S \ {i})

MockDeleted == Range(mock.deleted)
MockKept == DOMAIN mock.files \ MockDeleted
MockSizes == [i \in DOMAIN mock.files |-> mock.files[i].size]

\* the running total when the scan reaches position i: reserved plus the
\* sizes of the files kept before i
RunningTotal(i) == mock.reserved + ListedSum({j \in MockKept : j < i})

TestSizes == <<300000, 300000, 300000, 30, 30, 300000>>

\* C3: limitSize deletes a file exactly when the running total plus its size
\* exceeds the budget, and goes on after a deletion; files are deleted in the
\* order of the listing.  With budget 1 MiB, reserved 300000 and the sizes of
\* the test, exactly the 3rd and the 6th file are deleted.
C3_ScanRule ==
  mock.done =>
    /\ \A i \in DOMAIN mock.files :
         i \in MockDeleted <=> RunningTotal(i) + mock.files[i].size > budget
    /\ \A i, j \in DOMAIN mock.deleted : i < j => mock.deleted[i] < mock.deleted[j]
    /\ (MockSizes = TestSizes /\ budget = MiB /\ mock.reserved = 300000)
         => MockDeleted = {3, 6}

\* a file is deleted and a less recently accessed one is kept
C3_Witness ==
  /\ mock.done
  /\ \E i \in MockDeleted, j \in MockKept : i < j

\* limitSize returned without throwing
LimitReturned == last.op = "limitSize" /\ ~last.threw

LimitPost ==
  /\ TotalSize(fs) <= budget
  /\ last.reserved <= budget => last.reserved + TotalSize(fs) <= budget

C5Case ==
  /\ mock.done
  /\ MockSizes = <<300000, 300000, 300000>>
  /\ budget = 300000
  /\ mock.reserved = 0

\* C5 as stated: with sizes [300000,300000,300000], budget 300000 and reserved
\* 0, exactly the least recently accessed file is deleted.
C5_Original == C5Case => (mock.deleted = <<3>> /\ ListedSum(MockKept) <= budget)

\* C5, amended: with sizes [300000,300000,300000], budget 300000 and reserved
\* 0, exactly the two least recently accessed files are deleted and the
\* remaining total is within the budget.
C5_TwoDeleted == C5Case => (mock.deleted = <<2, 3>> /\ ListedSum(MockKept) <= budget)

C5_Witness == C5Case /\ MockKept = {1}

\* C6 as stated: with the sizes [300000,300000,300000,30,30,300000] and a
\* budget of 300000 bytes, exactly the 3rd and the 6th file are deleted.
C6_Original ==
  (mock.done /\ MockSizes = TestSizes /\ budget = 300000) => MockDeleted = {3, 6}

C6Case ==
  /\ mock.done
  /\ MockSizes = TestSizes
  /\ budget = MiB
  /\ mock.reserved = 300000

\* C6, amended: with the sizes [300000,300000,300000,30,30,300000], a budget
\* of 1 MiB and 300000 bytes reserved, exactly the 3rd and the 6th file are
\* deleted and both files of size 30 are kept.
C6_KeepsSmallOld == C6Case => (mock.deleted = <<3, 6>> /\ {4, 5} \subseteq MockKept)

C6_Witness == C6Case /\ Len(mock.deleted) = 2

\* a file that is no gzip stream of a serialized layer list
Corrupted(data) == data \in RawContents

\* C7: get never throws; on a missing file it returns undefined without a
\* warning, on a corrupted file it returns undefined and logs a warning.
C7_GetNeverThrows ==
  [][last'.op = "get" =>
       LET name == getImageCacheFile(last'.image)
       IN /\ ~last'.threw
          /\ ~fs[name].present => (last'.result = Absent /\ last'.warnings = <<>>)
          /\ (fs[name].present /\ Corrupted(fs[name].data))
               => (last'.result = Absent /\ WarnGet \in Range(last'.warnings))]_vars

C7_Witness ==
  /\ last.op = "get"
  /\ fs[getImageCacheFile(last.image)].present
  /\ Corrupted(fs[getImageCacheFile(last.image)].data)
  /\ last.result = Absent
  /\ WarnGet \in Range(last.warnings)

\* C10: a save whose compressed layer list exceeds the budget does not call
\* writeFile; with a budget of 0 no save calls writeFile.
C10_NoOversizedWrite ==
  last.op = "save" =>
    ((gzipLength(JSONstringify(last.layers)) > budget \/ budget = 0)
       => "writeFile" \notin Range(last.calls))

C10_Witness ==
  /\ last.op = "save" /\ ~last.faulty
  /\ budget = 0
  /\ "writeFile" \notin Range(last.calls)

(***************************************************************************)
(* Properties of getFilesystemLayers.                                      *)
(***************************************************************************)
\* the call returned the value the cache held
HitReturned == ex.pc = "returned" /\ ex.cached.defined

\* C8: on a cache hit the cached value is returned and the call does nothing
\* but the get: no temporary directory, no export, no extraction, no parsing,
\* no provider call, no save.
C8_HitPath ==
  HitReturned =>
    /\ ex.result = ex.cached.value
    /\ ex.trace = <<"get">>
    /\ ex.tmp = "none"
    /\ ex.saved = <<>>
    /\ last.op = "get"

C8_Witness == HitReturned /\ ex.result.layers # <<>>

MissOrder == <<"get", "mkdtemp", "saveImage", "extract", "parse", "save">>

IsStep(x) == x \in Range(MissOrder)

\* the steps of the call so far, provider calls and the removal left out
Steps == SelectSeq(ex.trace, IsStep)

IsPrefix(p, q) == Len(p) <= Len(q) /\ SubSeq(q, 1, Len(p)) = p

\* C9: the steps of a call happen in the order get, mkdtemp, saveImage,
\* extract, parse, save; a call that returns after a miss has done them all;
\* save is called at most once, only after the parser succeeded, and with the
\* layer list the call returns.
C9_MissOrder ==
  /\ IsPrefix(Steps, MissOrder)
  /\ Len(ex.saved) <= 1
  /\ ex.saved # <<>> =>
       (getLayersFromImageArchive(ex.archive).ok /\ ex.saved = <<ex.parsed>>)
  /\ (ex.pc = "returned" /\ ~ex.cached.defined) =>
       (Steps = MissOrder /\ ex.saved = <<ex.result>>)

C9_Witness ==
  /\ ex.pc = "returned" /\ ~ex.cached.defined
  /\ ex.saved = <<ex.result>>
  /\ ex.result.layers # <<>>

(***************************************************************************)
(* Properties of save, clearImageCache and the file names.                 *)
(***************************************************************************)
\* a save without failure of a layer list whose compressed size alone exceeds
\* the budget
OverBudgetSave ==
  /\ last.op = "save" /\ ~last.faulty
  /\ gzipLength(JSONstringify(last.layers)) > budget

\* C11: a save whose compressed size exceeds the budget on its own is skipped
\* entirely: it writes nothing and deletes nothing, no eviction pass runs.
C11_SkippedEntirely ==
  OverBudgetSave =>
    (last.deleted = <<>> /\ Range(last.calls) \cap {"rm", "mkdir", "writeFile"} = {})

\* the getFilesystemLayers call ended after a save in which mkdir or
\* writeFile was rejected
WriteFailed ==
  /\ ex.pc \in {"returned", "threw"}
  /\ "save" \in Range(ex.trace)
  /\ last.op = "save"
  /\ WarnSave \in Range(last.warnings)
  /\ "mkdir" \in Range(last.calls)

\* C12: a failure of mkdir or writeFile in save is logged and not raised: save
\* completes normally and the getFilesystemLayers call returns the layer list
\* it parsed.
C12_WriteFailureLogged ==
  WriteFailed =>
    /\ ~last.threw
    /\ ex.pc = "returned" /\ ex.error = <<>>
    /\ ex.result = ex.parsed /\ ex.result = last.layers

C12_Witness == WriteFailed /\ ex.pc = "returned" /\ ex.result.layers # <<>>

RmCount(calls) == Cardinality({i \in DOMAIN calls : calls[i] = "rm"})

\* an rm of the eviction pass threw: one more rm was called than files deleted
EvictionFailed ==
  /\ last.op \in {"limitSize", "save"}
  /\ RmCount(last.calls) > Len(last.deleted)

\* C13 as stated: a failure to delete a file during the eviction pass is
\* thrown to the caller of limitSize and, inside save, to the caller of save.
C13_Original == EvictionFailed => last.threw

\* C13: a failure to delete a file during the eviction pass is thrown to the
\* caller of limitSize; inside save it is caught and logged like every other
\* failure, save completes normally and writes nothing.
C13_EvictionFailure ==
  EvictionFailed =>
    /\ last.op = "limitSize" => last.threw
    /\ last.op = "save" =>
         /\ ~last.threw
         /\ WarnSave \in Range(last.warnings)
         /\ Range(last.calls) \cap {"mkdir", "writeFile"} = {}

C13_Witness ==
  /\ EvictionFailed /\ last.op = "save" /\ last.deleted # <<>>
  /\ gzipLength(JSONstringify(last.layers)) <= budget

\* C14: clearImageCache for an image identity completes without error, whether
\* the cache file of the identity exists or not; it deletes no other file and
\* the file of the identity is absent afterwards.
C14_ClearImageCache ==
  (last.op = "clearImageCache" /\ ~last.faulty) =>
    /\ ~last.threw
    /\ Range(last.deleted) \subseteq {clearImageCacheFile(last.image)}
    /\ ~fs[clearImageCacheFile(last.image)].present

\* a save that wrote its file, then clearImageCache with the event id of the
\* same image, then a get of that image, none with a failure
SaveClearGetCase ==
  /\ prev2.op = "save" /\ ~prev2.faulty /\ "writeFile" \in Range(prev2.calls)
  /\ prev.op = "clearImageCache" /\ ~prev.faulty /\ ImageIdOf(prev.image) = prev2.image
  /\ last.op = "get" /\ ~last.faulty /\ last.image = prev2.image

C16_FileName ==
  (last.op = "save" /\ "writeFile" \in Range(last.calls)) =>
    /\ last.image[1] = "sha256:"
    /\ last.mkdir = <<StoragePath, "cache", "v1">>
    /\ last.file = <<StoragePath, "cache", "v1", <<last.image[2], ".gz">> >>

(***************************************************************************)
(* Recency.                                                                *)
(***************************************************************************)
\* the step is a limitSize without failure that follows a get which hit
\* without failure; Entry is the file the get read
HitBeforeLimit ==
  /\ last.op = "get" /\ last.result.defined /\ ~last.faulty
  /\ last'.op = "limitSize" /\ ~last'.faulty

Entry == getImageCacheFile(last.image)

Fits == last'.reserved + fileSize(fs, Entry) <= budget

OthersOlder ==
  \A n \in DOMAIN fs \ {Entry} : fs[n].present => fs[n].atime < fs[Entry].atime

\* C17 as stated: the limitSize(reserved) that follows a get which hit keeps
\* the entry whenever reserved + its size <= budget, whatever other entries
\* exist.
C17_Original == [][(HitBeforeLimit /\ Fits) => fs'[Entry].present]_vars

\* C17: a get that hits sets the access time of the entry to the current time
\* and no file has a later one; the limitSize(reserved) that follows keeps the
\* entry whenever reserved + its size <= budget and every other file has a
\* strictly earlier access time.
C17_Recency ==
  [][HitBeforeLimit =>
       /\ fs[Entry].atime = now
       /\ \A n \in DOMAIN fs : fs[n].present => fs[n].atime <= fs[Entry].atime
       /\ (Fits /\ OthersOlder) => fs'[Entry].present]_vars

\* the get refreshed an entry that was the oldest file, limitSize then
\* deleted other files and kept the entry
C17_Witness ==
  /\ prev.op = "get" /\ prev.result.defined /\ ~prev.faulty
  /\ last.op = "limitSize" /\ ~last.faulty /\ last.deleted # <<>>
  /\ fs[getImageCacheFile(prev.image)].present
  /\ fs[getImageCacheFile(prev.image)].atime = 2

\* a get on a present file that holds the gzip stream of a serialized layer
\* list, utimes being rejected
UtimesFailed ==
  /\ last.op = "get" /\ last.faulty
  /\ fs[getImageCacheFile(last.image)].present
  /\ ~Corrupted(fs[getImageCacheFile(last.image)].data)

\* C18: when utimes is rejected during a get on a valid cache file, get still
\* returns the cached value and the rejection is only logged as a warning.
C18_UtimesFailure ==
  UtimesFailed =>
    LET data == fs[getImageCacheFile(last.image)].data
    IN /\ ~last.threw
       /\ last.result = [defined |-> TRUE,
                         value |-> [layers |-> JSONparse(gunzip(data).text).layers]]
       /\ last.warnings = <<WarnUtimes>>

C18_Witness == UtimesFailed /\ last.result.defined /\ last.result.value.layers # <<>>

(***************************************************************************)
(* Properties of getFilesystemLayers: the temporary directory, the errors. *)
(***************************************************************************)
\* the call ended and mkdtemp had created the temporary directory
EndedWithTmp ==
  /\ ex.pc \in {"returned", "threw"}
  /\ "mkdtemp" \in Range(ex.trace)
  /\ ex.error # <<"mkdtemp failed">>

\* C19: every getFilesystemLayers call that created the temporary directory has
\* started its removal when it ends, whether it returns or throws (export
\* failed or cancelled, extraction failed, parsing failed); a removal that
\* fails is logged and changes neither the result nor the error.
C19_TmpRemoved ==
  /\ [](EndedWithTmp => ex.tmp \in {"removing", "removed", "rm failed"})
  /\ [][(ex.tmp = "removing" /\ ex'.tmp = "rm failed") =>
          /\ ex'.pc = ex.pc /\ ex'.result = ex.result
          /\ ex'.error = ex.error /\ ex'.thrown = ex.thrown
          /\ ex'.logged = Append(ex.logged, WarnRmTmp)]_vars

C19_Witness ==
  /\ EndedWithTmp /\ ex.pc = "threw" /\ ex.error = <<ErrorPrefix, "parse failed">>
  /\ ex.tmp = "rm failed" /\ ex.logged = <<WarnRmTmp>>

\* the call ended because saveImage was cancelled through the token
CancelledExport ==
  ex.pc = "threw" /\ Len(ex.error) = 2 /\ ex.error[2] = "cancelled"

\* C20: a getFilesystemLayers call cancelled during the export ends with an
\* outcome of its own kind, not with the Error that a failed export,
\* extraction or parse ends with, and the cancellation is not logged.
C20_Cancelled ==
  CancelledExport =>
    /\ ex.thrown # "Error"
    /\ ex.error[1] # ErrorPrefix
    /\ Range(ex.logged) \subseteq {WarnRmTmp}

\* the call ended after its export, its extraction or its parser failed
ParserFails == ~getLayersFromImageArchive(ex.archive).ok

FailedCall ==
  /\ ex.pc \in {"returned", "threw"}
  /\ \/ "parse" \in Range(ex.trace) /\ ParserFails
     \/ /\ ex.pc = "threw" /\ Len(ex.error) = 2
        /\ ex.error[2] \in {"failed", "cancelled", "extract failed"}

\* C21: when the export, the extraction or the parser fails, the call throws
\* one error and returns no layer list, cache.save is not called in that call,
\* and no step from the export on changes a cache file.
C21_FailureSavesNothing ==
  /\ [](FailedCall =>
          /\ ex.pc = "threw" /\ ex.thrown = "Error" /\ ex.error[1] = ErrorPrefix
          /\ ex.result = NoLayers
          /\ "save" \notin Range(ex.trace) /\ ex.saved = <<>>
          /\ last.op = "get" /\ last.image = ex.image /\ ~last.result.defined)
  /\ [][(ex.pc \in {"saveImage", "extract", "parse"} /\ ex'.pc = "threw") => fs' = fs]_vars

C21_Witness ==
  /\ FailedCall /\ ex.error = <<ErrorPrefix, "parse failed">>
  /\ ex.archive.unreadable = {1}
  /\ fs[getImageCacheFile(ex.image)].present

(***************************************************************************)
(* Properties of the parser.                                               *)
(***************************************************************************)
\* getLayersFromImageArchive has returned or thrown
ParserEnded == ex.pc # "parse" /\ "parse" \in Range(ex.trace)

\* the history records with empty_layer false, in their order
NonEmpty(h) == SelectSeq(h, LAMBDA r : ~r.empty_layer)

\* C22: for N layers and a history whose records with empty_layer false number
\* exactly N, empty records being anywhere, the parser returns N layers and
\* the createdBy of the j-th layer is the created_by of the j-th non-empty
\* record.
C22_HistoryAligned ==
  (/\ ParserEnded /\ ex.archive.manifest = "one"
   /\ Len(NonEmpty(ex.archive.history)) = Len(ex.archive.layers)) =>
    /\ ex.pc # "threw"
    /\ Len(ex.parsed.layers) = Len(ex.archive.layers)
    /\ \A j \in DOMAIN ex.parsed.layers :
         /\ ex.parsed.layers[j].id = ex.archive.layers[j][1]
         /\ ex.parsed.layers[j].createdBy = NonEmpty(ex.archive.history)[j].created_by

\* layers [A, B, C] with history [empty, x, y, z]
C22_Witness ==
  /\ ParserEnded
  /\ ex.archive.layers = ArchiveLayers(3)
  /\ ex.archive.history = <<HistoEmpty, HistoX, [HistoX EXCEPT !.created_by = "y"],
                            [HistoX EXCEPT !.created_by = "z"]>>
  /\ ex.parsed.layers = <<[id |-> "A", createdBy |-> "x"], [id |-> "B", createdBy |-> "y"],
                          [id |-> "C", createdBy |-> "z"]>>

\* the parser ended on an archive whose history has fewer non-empty records
\* than the archive has layers
ShortHistory ==
  /\ ParserEnded /\ ex.archive.manifest = "one"
  /\ Len(NonEmpty(ex.archive.history)) < Len(ex.archive.layers)

\* the number of layers without a history record
Unmatched == Len(ex.archive.layers) - Len(NonEmpty(ex.archive.history))

\* C23 as stated: with fewer non-empty records than layers the parser succeeds
\* and the layers left with createdBy unset are the trailing layers.
C23_Original ==
  ShortHistory =>
    /\ ex.pc # "threw"
    /\ Len(ex.parsed.layers) = Len(ex.archive.layers)
    /\ \A j \in DOMAIN ex.parsed.layers :
         ex.parsed.layers[j].createdBy = Undefined <=> j > Len(NonEmpty(ex.archive.history))

\* C23: with fewer non-empty records than layers the parser succeeds, the
\* layers left with createdBy unset are the leading layers, and every
\* non-empty record is attached to one of the layers behind them, in order.
C23_LeadingUnset ==
  ShortHistory =>
    /\ ex.pc # "threw"
    /\ Len(ex.parsed.layers) = Len(ex.archive.layers)
    /\ \A j \in DOMAIN ex.parsed.layers :
         ex.parsed.layers[j].createdBy =
           IF j <= Unmatched THEN Undefined
           ELSE NonEmpty(ex.archive.history)[j - Unmatched].created_by

C23_Witness ==
  /\ ShortHistory
  /\ ex.archive.history = <<HistoX, HistoEmpty, [HistoX EXCEPT !.created_by = "y"]>>
  /\ ex.parsed.layers = <<[id |-> "A", createdBy |-> Undefined],
                          [id |-> "B", createdBy |-> "x"], [id |-> "C", createdBy |-> "y"]>>

\* the parser ended on an archive whose manifest list is empty
EmptyManifest == ParserEnded /\ ex.archive.manifest = "empty"

\* C24: for an archive whose manifest list is empty the parser returns an
\* empty layer list and getFilesystemLayers returns it, without an error;
\* only manifest.json is read and the provider gets no call.
C24_EmptyManifest ==
  EmptyManifest =>
    /\ ex.pc \in {"save", "returned"} /\ ex.error = <<>>
    /\ ex.parsed = NoLayers
    /\ ex.reads = <<"manifest.json">> /\ ex.provided = <<>>
    /\ ex.pc = "returned" => ex.result = NoLayers

C24_Witness ==
  /\ EmptyManifest /\ ex.pc = "returned" /\ ex.result = NoLayers
  /\ ex.archive.config = "malformed"

\* the parser ended on an archive of one layer with one entry, TheEntry
OneEntryParsed ==
  /\ ParserEnded /\ ex.archive.manifest = "one"
  /\ Len(ex.archive.entries) = 1 /\ Len(ex.archive.entries[1]) = 1

TheEntry == ex.archive.entries[1][1]

\* the last segment of a path and the path of its parent directory
LastSegment(p) == p[Len(p)]
ParentOf(p) == IF Len(p) = 1 THEN << <<".">> >> ELSE SubSeq(p, 1, Len(p) - 1)

\* the three classes of a path
IsOpaqueMarker(p) == LastSegment(p) = <<".wh.", ".wh.", ".opq">>
IsPlainWhiteout(p) == Head(LastSegment(p)) = ".wh." /\ ~IsOpaqueMarker(p)
IsRegular(p) == Head(LastSegment(p)) # ".wh."

\* C25: an entry whose basename is exactly '.wh..wh..opq' leads, whatever its
\* type, to exactly one provider call, addOpaqueWhiteout with the parent
\* directory of the entry; every entry leads to exactly one call, of the class
\* of its path: opaque whiteout, whiteout, or regular entry.
C25_OpaqueWhiteout ==
  OneEntryParsed =>
    /\ ex.pc # "threw"
    /\ Len(ex.provided) = 1
    /\ IsOpaqueMarker(TheEntry.path) <=> ex.provided[1].call = "addOpaqueWhiteout"
    /\ IsPlainWhiteout(TheEntry.path) <=> ex.provided[1].call = "addWhiteout"
    /\ IsRegular(TheEntry.path)
         <=> ex.provided[1].call \in {"addFile", "addDirectory", "addSymlink"}
    /\ IsOpaqueMarker(TheEntry.path) => ex.provided[1].path = ParentOf(TheEntry.path)

C25_Witness ==
  /\ OneEntryParsed
  /\ TheEntry = [path |-> << <<"a">>, <<"b">>, <<".wh.", ".wh.", ".opq">> >>,
                 type |-> "Directory"]
  /\ ex.provided = <<[call |-> "addOpaqueWhiteout", path |-> << <<"a">>, <<"b">> >>,
                      threw |-> FALSE]>>

\* the entry path with '.wh.' removed from its last segment; a last segment
\* that becomes empty leaves the path of the parent directory
HiddenPathOf(p) ==
  IF Tail(LastSegment(p)) = <<>> THEN ParentOf(p)
  ELSE [p EXCEPT ![Len(p)] = Tail(LastSegment(p))]

\* C26: an entry whose basename starts with '.wh.' and is not the opaque marker
\* leads to exactly one addWhiteout call whose path is the entry path with
\* '.wh.' removed from the last segment only; getHiddenFile throws on a path
\* that is no whiteout, and it never throws while parsing.
C26_Whiteout ==
  OneEntryParsed =>
    /\ ex.pc # "threw"
    /\ \A i \in DOMAIN ex.provided : ~ex.provided[i].threw
    /\ IsPlainWhiteout(TheEntry.path) =>
         ex.provided = <<[call |-> "addWhiteout", path |-> HiddenPathOf(TheEntry.path),
                          threw |-> FALSE]>>
    /\ ~getHiddenFile(TheEntry.path).ok <=> IsRegular(TheEntry.path)

C26_Witness ==
  /\ OneEntryParsed
  /\ TheEntry.path = << <<"a">>, <<"b">>, <<".wh.", "c">> >>
  /\ ex.provided[1].call = "addWhiteout"
  /\ ex.provided[1].path = << <<"a">>, <<"b">>, <<"c">> >>

\* C29: a cache file comes into being only in a save, and it is the file of
\* the saved identity; a cache file goes away only in the eviction pass of
\* init, save or limitSize or in clearImageCache, and it is a file that
\* call removed; a get, on a hit, a miss or a corrupted entry, neither
\* creates nor deletes nor rewrites any cache file.
C29_EntryStateMachine ==
  [][\A n \in FileNames :
       /\ (~fs[n].present /\ fs'[n].present) =>
            last'.op = "save" /\ n = getImageCacheFile(last'.image)
       /\ (fs[n].present /\ ~fs'[n].present) =>
            /\ last'.op \in {"init", "save", "limitSize", "clearImageCache"}
            /\ n \in Range(last'.deleted)
       /\ last'.op = "get" =>
            fs'[n].present = fs[n].present /\ fs'[n].data = fs[n].data]_vars

\* a get met a corrupted entry, and the file is still there
C29_Witness ==
  /\ last.op = "get"
  /\ ~last.result.defined
  /\ WarnGet \in Range(last.warnings)
  /\ fs[getImageCacheFile(last.image)].present

\* the step is a save in whose eviction pass an rm threw
SaveEvictionFails ==
  last'.op = "save" /\ RmCount(last'.calls) > Len(last'.deleted)

\* C30 as stated: when a deletion fails in the eviction pass of save, the
\* cache file of the saved identity is neither created nor modified by that
\* save, and the files the scan had not reached are untouched.
C30_Original ==
  [][SaveEvictionFails =>
       /\ fs'[getImageCacheFile(last'.image)] = fs[getImageCacheFile(last'.image)]
       /\ \A n \in FileNames \ Range(last'.deleted) : fs'[n] = fs[n]]_vars

\* C30: when a deletion fails in the eviction pass of save, the new entry is
\* not written (neither mkdir nor writeFile is called); the cache file of the
\* saved identity is left as it was, unless the eviction pass itself had
\* removed it before the failure; every file the pass did not remove, the
\* unreached ones among them, is untouched.
C30_AbortedSave ==
  [][SaveEvictionFails =>
       /\ Range(last'.calls) \cap {"mkdir", "writeFile"} = {}
       /\ LET n == getImageCacheFile(last'.image)
          IN \/ fs'[n] = fs[n]
             \/ n \in Range(last'.deleted) /\ fs[n].present /\ ~fs'[n].present
       /\ \A n \in FileNames \ Range(last'.deleted) : fs'[n] = fs[n]]_vars

\* the eviction pass removed the old file of the saved identity, then failed
\* on another file, which is still there
C30_Witness ==
  /\ EvictionFailed /\ last.op = "save"
  /\ getImageCacheFile(last.image) \in Range(last.deleted)
  /\ ~fs[getImageCacheFile(last.image)].present
  /\ \E n \in FileNames : fs[n].present

\* the two calls are for the same image identity and both missed
SameIdentityMisses ==
  /\ race.call[1].pc # "idle"
  /\ race.call[1].image = race.call[2].image
  /\ \A p \in Calls : race.call[p].miss

\* C27: two concurrent calls for the same image identity that both miss each
\* save; once both have returned, the cache file of the identity holds the
\* complete blob of the call whose writeFile completed last, and a get at any
\* point returns absent or the complete value one of the two saved.
C27_LastWriterWins ==
  SameIdentityMisses =>
    /\ (BothReturned /\ race.writer # 0 /\ race.after = "none") =>
         LET name == getImageCacheFile(race.call[1].image)
         IN /\ fs[name].present
            /\ fs[name].data = compressedOf(race.call[race.writer])
    /\ (last.op = "get" /\ last.result.defined) =>
         last.result.value \in {race.call[p].layers : p \in Calls}

\* C28: a total above the budget and the deletion of a file written
\* after the listing are the only effects of the interleaving, so that no
\* call fails without a filesystem failure; a later init or save that runs
\* alone leaves the total size within the budget.
C28_OnlyEffects ==
  /\ \A p \in Calls : race.call[p].outcome # "aborted"
  /\ race.after # "none" => TotalSize(fs) <= budget

\* C31: limitSize never deletes a file while it keeps a less recently
\* accessed file of equal or greater size; with files of one size the deleted
\* files are the last ones of the listing, the least recently accessed; with
\* reserved 300000, budget 1 MiB and three files of 300000 only the oldest is
\* deleted.
C31_Recency ==
  mock.done =>
    /\ \A i \in MockDeleted, j \in MockKept :
         i < j => mock.files[j].size < mock.files[i].size
    /\ (\A i, j \in DOMAIN mock.files : mock.files[i].size = mock.files[j].size) =>
         \E k \in 0..Len(mock.files) :
           /\ MockKept = 1..k
           /\ MockDeleted = (k + 1)..Len(mock.files)
    /\ (MockSizes = <<300000, 300000, 300000>> /\ budget = MiB /\ mock.reserved = 300000)
         => mock.deleted = <<3>>

\* three files of 300000, reserved 300000, budget 1 MiB: the two most
\* recently accessed files are kept
C31_Witness ==
  /\ mock.done
  /\ MockSizes = <<300000, 300000, 300000>> /\ budget = MiB /\ mock.reserved = 300000
  /\ MockKept = {1, 2}

\* limitSize(reserved) has run twice in a row with the same reserved value,
\* the first run without a filesystem failure and without throwing
LimitRepeated ==
  /\ prev.op = "limitSize" /\ ~prev.threw /\ ~prev.faulty
  /\ last.op = "limitSize" /\ last.reserved = prev.reserved

\* C32: limitSize is idempotent: a second limitSize(reserved) right after a
\* first one that succeeded deletes no file, whatever the cache content, the
\* budget and the reserved value.
C32_Idempotent == LimitRepeated => (last.deleted = <<>> /\ ~last.threw)

\* the first run deleted a file and kept another, the second run deleted none
C32_Witness ==
  /\ LimitRepeated
  /\ prev.deleted # <<>>
  /\ ~last.faulty
  /\ \E n \in DOMAIN fs : fs[n].present

\* the parser ended on an archive whose history has more non-empty records
\* than the archive has layers
LongHistory ==
  /\ ParserEnded /\ ex.archive.manifest = "one" /\ ex.archive.config = "ok"
  /\ Len(NonEmpty(ex.archive.history)) > Len(ex.archive.layers)

\* C33: when the history has more non-empty records than there are layers,
\* an empty layer list with one non-empty record included, the parser throws
\* instead of returning a layer list; getFilesystemLayers throws its error,
\* returns nothing, does not call cache.save and leaves the cache without a
\* file for the image.
C33_TooManyRecords ==
  LongHistory =>
    /\ ex.pc = "threw" /\ ex.thrown = "Error" /\ ex.error[1] = ErrorPrefix
    /\ ex.result = NoLayers /\ ex.parsed = NoLayers
    /\ "save" \notin Range(ex.trace) /\ ex.saved = <<>>
    /\ last.op # "save"
    /\ ~fs[getImageCacheFile(ex.image)].present

\* no layer at all and one non-empty record
C33_Witness ==
  /\ LongHistory
  /\ ex.archive.layers = <<>>
  /\ Len(NonEmpty(ex.archive.history)) = 1
  /\ ex.pc = "threw"

====
